---- MODULE Spec2Model ----
(***************************************************************************)
(* A model of the per-frame animation code of the tree scene: the foliage  *)
(* progress uniform (Foliage.tsx), the ornament instances and their        *)
(* twinkle scheduler (Ornaments.tsx) and the photo frames that dock to the *)
(* camera (PhotoOrnaments, src/unnamed/part_001).                          *)
(*                                                                         *)
(* Numbers.  The code computes in IEEE floating point: every result is     *)
(* rounded to the nearest representable value, and the instance buffers    *)
(* are Float32Arrays.  The model keeps that shape with fixed-point         *)
(* integers: a quantity is an integer count of a storage step and every    *)
(* product is rounded to the nearest step (RoundDiv).  Steps:              *)
(*   uProgress 1/10000, zoomProgress            1/2000                     *)
(*   positions                                  0.01 scene units           *)
(*   colours, scales, sine values               1/100                      *)
(*   angles                                     0.01 rad                   *)
(*   clock                                      0.05 s                     *)
(***************************************************************************)
EXTENDS Integers, Sequences, FiniteSets, TLC

VARIABLES
    treeState,       \* App: 'CHAOS' | 'FORMED'
    clock,           \* state.clock.elapsedTime, in ticks of 0.05 s
    globalScale,     \* config.ornamentScale, in 1/100
    ornaments,       \* Ornaments: the generated OrnamentData, index 0..count-1
    instanceMatrix,  \* meshRef.instanceMatrix: per index [pos, rot, scale]
    instanceColor,   \* meshRef.instanceColor: per index a colour
    twinkle,         \* twinkleRef.current: [active, nextTwinkleTime]
    colorDirty,      \* instanceColor.needsUpdate was set by the last frame
    uProgress,       \* Foliage: uniforms.uProgress.value, in 1/10000
    runStart,        \* history: ornament positions when treeState last changed
    runLen,          \* history: ornament frames since then, counted to MaxRun
    frames,          \* history: ornament frames so far
    lastFrame,       \* history: what the last ornament frame's twinkle step did
    photos,          \* App: the PhotoData collection
    photoScale,      \* config.photoScale, in 1/100
    zoomedId,        \* Experience: the id of the docked photo, or NoId
    zoomProgress,    \* PhotoFrame, per photo id: zoomProgress.current, in 1/2000
    mouseHovered,    \* PhotoFrame, per photo id
    group,           \* PhotoFrame, per photo id: the transform of groupRef.current
    lastDock,        \* history, per photo id: the poses the last frame blended
    sharing,         \* Overlay.handleShare in flight: the photos it captured
    loadPending,     \* App.loadSharedTree in flight (the page has ?share=)
    ornamentCount,   \* config.ornamentCount, the count prop of Ornaments
    particles,       \* Foliage: positionsChaos / positionsTarget, per particle
    rotation,        \* RotatingTreeGroup: groupRef.current.rotation x, y, in 1/10000 rad
    ran              \* frame loop: callbacks called in the current frame, and their steps

vars == <<treeState, clock, globalScale, ornaments, instanceMatrix,
          instanceColor, twinkle, colorDirty, uProgress, runStart, runLen,
          frames, lastFrame, photos, photoScale, zoomedId, zoomProgress,
          mouseHovered, group, lastDock, sharing, loadPending, ornamentCount,
          particles, rotation, ran>>

photoVars == <<photos, photoScale, zoomedId, zoomProgress, mouseHovered, group,
               lastDock, sharing, loadPending>>

ornVars == <<ornaments, instanceMatrix, instanceColor, twinkle, colorDirty,
             runStart, runLen, frames, lastFrame, ornamentCount>>

-----------------------------------------------------------------------------
(* Bounds of the model *)

NumOrnaments == 6    \* ornament count of the twinkle specification
MaxFrames == 6       \* ornament frames of one behaviour
MaxRun == 2          \* frames of constant scene state the history follows

-----------------------------------------------------------------------------
(* Arithmetic *)

\* a / b rounded to the nearest integer, halves upward (b > 0)
RoundDiv(a, b) == (2 * a + b) \div (2 * b)

Abs(x) == IF x < 0 THEN -x ELSE x

Min(a, b) == IF a <= b THEN a ELSE b

\* 1.0 of a progress value
PUnit == 100 * 100

\* THREE.MathUtils.lerp(x, y, t) = (1 - t) * x + t * y, with t = tn / td
MathLerp(x, y, tn, td) == RoundDiv((td - tn) * x + tn * y, td)

\* THREE.Vector3.lerp / THREE.Color.lerp, one component:
\* this.x += (v.x - this.x) * alpha, with alpha = an / ad
VecLerp(x, v, an, ad) == x + RoundDiv((v - x) * an, ad)

\* Math.sin(progress * Math.PI) for progress = e / d in [0, 1], in 1/100
\* (Bhaskara's rational form of the sine: 0 at both ends, 100 at e = d / 2)
SinPi(e, d) == RoundDiv(1600 * e * (d - e), 5 * d * d - 4 * e * (d - e))

\* one full turn of an Euler angle; an angle read back from the matrix wraps
RotTurn == 628

-----------------------------------------------------------------------------
(* Ornaments: data *)

GOLD == 83           \* COLORS.GOLD '#D4AF37', red channel
RED_VELVET == 40     \* COLORS.RED_VELVET '#660015', red channel
WHITE == 100         \* '#ffffff', red channel
HIGHLIGHT == 200     \* new THREE.Color(2.0, 2.0, 1.8), red channel

\* Math.random() * 0.03 + 0.01: 0.02 and 0.025
Speeds == << [num |-> 1, den |-> 50], [num |-> 1, den |-> 40] >>

palette == <<GOLD, RED_VELVET, WHITE, GOLD>>

maxActiveTwinkles == 5
MaxAttempts == 10

\* The two time draws of one trigger, in ticks: the duration
\* 0.3 + Math.random() * 0.4 s and the cadence window
\* 0.05 + Math.random() * 0.15 s
TimeDraws == { [duration |-> 13, window |-> 1], [duration |-> 6, window |-> 3] }
\* clock advance between two frames, in ticks
Deltas == {2, 7}

count == Len(ornaments)
Indices == 0 .. (count - 1)

\* one OrnamentData record as the generator draws it (x axis of the poses;
\* the speed is the fraction sp.num / sp.den)
OrnamentData(chaosX, targetX, col, sc, sp, rs) ==
    [positionChaos |-> chaosX, positionTarget |-> targetX, color |-> col,
     scale |-> sc, speed |-> sp, rotationSpeed |-> rs]

\* useLayoutEffect: every instance is placed at its chaos pose with its
\* authored colour; the dummy object's rotation is whatever it last held
LayoutMatrix(orn, gs) ==
    [i \in 0 .. (Len(orn) - 1) |->
        [pos |-> orn[i + 1].positionChaos,
         rot |-> <<0, 0, 0>>,
         scale |-> RoundDiv(orn[i + 1].scale * gs, 100)]]

\* the rotation the shared dummy object holds: that of the instance the last
\* frame's loop ended on (0 before the first frame)
DummyRotation(mat) ==
    IF DOMAIN mat = {} THEN <<0, 0, 0>>
    ELSE mat[CHOOSE i \in DOMAIN mat : \A j \in DOMAIN mat : j <= i].rot

\* useLayoutEffect run again, for new ornaments or a new globalScale: every
\* instance is placed at its chaos position, with the dummy's rotation
Relayout(orn, mat, gs) ==
    [i \in 0 .. (Len(orn) - 1) |->
        [pos |-> orn[i + 1].positionChaos,
         rot |-> DummyRotation(mat),
         scale |-> RoundDiv(orn[i + 1].scale * gs, 100)]]

LayoutColor(orn) == [i \in 0 .. (Len(orn) - 1) |-> orn[i + 1].color]

-----------------------------------------------------------------------------
(* Ornaments.useFrame: movement *)

\* the movement with the lerp taken from the chaos position every frame
MoveInstanceFromChaos(data, m, isFormed, gs) ==
    LET targetPos == IF isFormed THEN data.positionTarget ELSE data.positionChaos
    IN  [m EXCEPT !.pos = VecLerp(data.positionChaos, targetPos,
                                  data.speed.num, data.speed.den)]

\* dummy.position.lerp(targetPos, data.speed); rotation increments; scale
MoveInstance(data, m, isFormed, gs) ==
    LET targetPos == IF isFormed THEN data.positionTarget ELSE data.positionChaos
        r == m.rot
        rs == data.rotationSpeed
    IN  [pos |-> VecLerp(m.pos, targetPos, data.speed.num, data.speed.den),
         rot |-> IF isFormed
                 THEN <<(r[1] + rs) % RotTurn, (r[2] + rs) % RotTurn, r[3]>>
                 ELSE <<(r[1] + rs * 5) % RotTurn, r[2], (r[3] + rs * 5) % RotTurn>>,
         scale |-> RoundDiv(data.scale * gs, 100)]

\* the loop with the lerp applied to the stored chaos position itself
DataLerpedInPlace(orn, isFormed) ==
    [k \in DOMAIN orn |->
        [orn[k] EXCEPT !.positionChaos =
            VecLerp(@, IF isFormed THEN orn[k].positionTarget ELSE @,
                    orn[k].speed.num, orn[k].speed.den)]]

\* what the loop does to the ornament data: it reads positionTarget,
\* positionChaos, speed, rotationSpeed and scale, and writes only the dummy
DataAfterFrame(orn, isFormed) == orn

MoveAll(orn, mat, isFormed, gs) ==
    [i \in DOMAIN mat |-> MoveInstance(orn[i + 1], mat[i], isFormed, gs)]

-----------------------------------------------------------------------------
(* Ornaments.useFrame: twinkle *)

Collides(active, idx) == \E k \in 1 .. Len(active) : active[k].index = idx

\* do { newIndex = draw; attempts++ } while (collides && attempts < 10)
RECURSIVE DrawLoop(_, _, _)
DrawLoop(draws, active, attempts) ==
    LET newIndex == draws[attempts + 1]
        n == attempts + 1
    IN  IF Collides(active, newIndex) /\ n < MaxAttempts
        THEN DrawLoop(draws, active, n)
        ELSE [newIndex |-> newIndex, attempts |-> n]

\* The draws of one selection: j times an index a, then the index b for the
\* rest.  a is the index of the oldest active task (a collision); b is the
\* lowest idle index or a (the permutations of the idle indices behave alike
\* and are not enumerated).
PrefixLens == {0, 2, 9, 10}
Busy(active) == { active[k].index : k \in 1 .. Len(active) }
LowestIdle(active, n) ==
    LET idle == (0 .. (n - 1)) \ Busy(active)
    IN  { i \in idle : \A m \in idle : i <= m }
DrawSeqs(active, n) ==
    LET a == IF Len(active) = 0 THEN 0 ELSE active[1].index
    IN  { [k \in 1 .. MaxAttempts |-> IF k <= j THEN a ELSE b] :
            b \in LowestIdle(active, n) \cup {a}, j \in PrefixLens }

\* if (twinkle.active.length < maxActiveTwinkles && time > nextTwinkleTime)
CanTriggerOffByOne(tw, time) ==
    Len(tw.active) <= maxActiveTwinkles /\ time > tw.nextTwinkleTime

CanTrigger(tw, time) ==
    Len(tw.active) < maxActiveTwinkles /\ time > tw.nextTwinkleTime

\* if (attempts < 10 && meshRef.current.instanceColor)
StartedOffByOne(sel, colors) == sel.attempts <= MaxAttempts /\ DOMAIN colors # {}

Started(sel, colors) == sel.attempts < MaxAttempts /\ DOMAIN colors # {}

\* a trigger that sets the next window only when it started a task
TriggerNoWindowOnSkip(tw, colors, time, draws, duration, window) ==
    IF CanTrigger(tw, time)
    THEN LET sel == DrawLoop(draws, tw.active, 0)
         IN  IF Started(sel, colors)
             THEN [active |-> Append(tw.active,
                                  [index |-> sel.newIndex,
                                   startTime |-> time,
                                   duration |-> duration,
                                   originalColor |-> colors[sel.newIndex]]),
                   nextTwinkleTime |-> time + window]
             ELSE tw
    ELSE tw

\* step 1 of the twinkle logic: start a new task
Trigger(tw, colors, time, draws, duration, window) ==
    IF CanTrigger(tw, time)
    THEN LET sel == DrawLoop(draws, tw.active, 0)
         IN  [active |-> IF Started(sel, colors)
                         THEN Append(tw.active,
                                  [index |-> sel.newIndex,
                                   startTime |-> time,
                                   duration |-> duration,
                                   originalColor |-> colors[sel.newIndex]])
                         ELSE tw.active,
              nextTwinkleTime |-> time + window]
    ELSE tw

\* what the trigger step of a frame did, for the history variable
TriggerNote(tw, colors, time, draws) ==
    IF CanTrigger(tw, time)
    THEN LET sel == DrawLoop(draws, tw.active, 0)
         IN  [attempts |-> sel.attempts, newIndex |-> sel.newIndex,
              started |-> Started(sel, colors)]
    ELSE [attempts |-> 0, newIndex |-> 0, started |-> FALSE]

Completed(t, time) == time - t.startTime >= t.duration

\* flashColor = originalColor lerped toward the highlight by intensity * 0.9
FlashColor(t, time) ==
    LET intensity == SinPi(time - t.startTime, t.duration)
    IN  VecLerp(t.originalColor, HIGHLIGHT, intensity * 9, 1000)

\* setColorAt(index, c); a write outside the typed array is ignored
SetColorAt(colors, index, c) ==
    IF index \in DOMAIN colors THEN [colors EXCEPT ![index] = c] ELSE colors

\* the same through the position i of the task in the active list
WriteOneAtListPosition(colors, t, i, time) ==
    SetColorAt(colors, i,
               IF Completed(t, time) THEN t.originalColor ELSE FlashColor(t, time))

\* one pass of active.forEach((t, i) => ...): the restore or the flash colour
WriteOne(colors, t, i, time) ==
    SetColorAt(colors, t.index,
               IF Completed(t, time) THEN t.originalColor ELSE FlashColor(t, time))

\* step 2: active.forEach, in list order
RECURSIVE WriteColors(_, _, _, _)
WriteColors(active, k, colors, time) ==
    IF k > Len(active) THEN colors
    ELSE WriteColors(active, k + 1, WriteOne(colors, active[k], k - 1, time), time)

\* completedIndices, ascending (0-based positions in the active list)
CompletedIndices(active, time) ==
    LET RECURSIVE Collect(_)
        Collect(k) == IF k > Len(active) THEN <<>>
                      ELSE IF Completed(active[k], time)
                           THEN <<k - 1>> \o Collect(k + 1)
                           ELSE Collect(k + 1)
    IN  Collect(1)

\* active.splice(i, 1) for the 0-based position i
Splice(active, i) ==
    IF i + 1 \in 1 .. Len(active)
    THEN SubSeq(active, 1, i) \o SubSeq(active, i + 2, Len(active))
    ELSE active

\* the removal loop run from the front: every splice shifts what follows
RECURSIVE SpliceForward(_, _, _)
SpliceForward(active, completed, i) ==
    IF i > Len(completed) THEN active
    ELSE SpliceForward(Splice(active, completed[i]), completed, i + 1)

RemoveCompletedForward(active, completed, i) == SpliceForward(active, completed, 1)

\* for (i = completedIndices.length - 1; i >= 0; i--) active.splice(...)
\* (i is the 1-based position in completedIndices of the next splice)
RECURSIVE RemoveCompleted(_, _, _)
RemoveCompleted(active, completed, i) ==
    IF i < 1 THEN active
    ELSE RemoveCompleted(Splice(active, completed[i]), completed, i - 1)

-----------------------------------------------------------------------------
(* Ornaments.useFrame, the whole callback *)

OrnamentsStep(dt) ==
    /\ \E draws \in DrawSeqs(twinkle.active, IF count = 0 THEN 1 ELSE count),
          td \in TimeDraws :
        LET time == clock + dt
            isFormed == treeState = "FORMED"
            tw1 == Trigger(twinkle, instanceColor, time, draws, td.duration, td.window)
            done == CompletedIndices(tw1.active, time)
            left == RemoveCompleted(tw1.active, done, Len(done))
        IN  /\ clock' = time
            /\ instanceMatrix' = MoveAll(ornaments, instanceMatrix, isFormed, globalScale)
            /\ instanceColor' = WriteColors(tw1.active, 1, instanceColor, time)
            /\ twinkle' = [active |-> left, nextTwinkleTime |-> tw1.nextTwinkleTime]
            /\ colorDirty' = (DOMAIN instanceColor # {} /\ Len(left) > 0)
            /\ lastFrame' = [trigger |-> TriggerNote(twinkle, instanceColor, time, draws),
                             completed |-> done]
    /\ runLen' = Min(runLen + 1, MaxRun + 1)
    /\ frames' = frames + 1
    /\ ornaments' = DataAfterFrame(ornaments, treeState = "FORMED")
    /\ UNCHANGED <<runStart, ornamentCount>>

OrnamentsFrame(dt) ==
    /\ OrnamentsStep(dt)
    /\ UNCHANGED <<treeState, globalScale, uProgress, particles, rotation, ran>>
    /\ UNCHANGED photoVars

-----------------------------------------------------------------------------
(* Foliage.useFrame *)

FoliageRateNum == 2   \* 0.02 = 2 / 100

\* the lerp of the callback written without its (1 - t) factor
FoliageLerpNoComplement(x, y) == RoundDiv(100 * x + FoliageRateNum * y, 100)

\* THREE.MathUtils.lerp(uProgress.value, targetProgress, 0.02)
FoliageLerp(x, y) == MathLerp(x, y, FoliageRateNum, 100)

FoliageStep ==
    LET targetProgress == IF treeState = "FORMED" THEN PUnit ELSE 0
    IN  uProgress' = FoliageLerp(uProgress, targetProgress)

FoliageFrame ==
    /\ FoliageStep
    /\ UNCHANGED <<treeState, clock, globalScale, particles, rotation, ran>>
    /\ UNCHANGED ornVars
    /\ UNCHANGED photoVars

-----------------------------------------------------------------------------
(* PhotoOrnaments.tsx: PhotoFrame and PhotoOrnaments.

   A photo frame's position is modelled by its height (the y axis, on which
   the float offset acts), in 0.01 scene units; an orientation by the pair of
   Euler angles the callback sets, in 0.01 rad; zoomProgress in 1/2000. *)

NoId == "none"

ZUnit == 2 * 1000

\* a frame that has not run its callback yet
NoDock ==
    [ran |-> FALSE, treePos |-> 0, treePosFloated |-> 0,
     treeRot |-> [x |-> 0, y |-> 0], globalScale |-> 0, screenPos |-> 0,
     screenRot |-> [x |-> 0, y |-> 0], screenScale |-> 0, targetProgress |-> 0,
     lerped |-> 0, t |-> 0, hovered |-> FALSE, isZoomed |-> FALSE,
     parent |-> TRUE]

\* handleShare is not running
NoShare == [running |-> FALSE, photos |-> <<>>, rewritten |-> FALSE]

\* Math.abs(zoomProgress.current - targetProgress) < 0.005
ZoomEps == 10

\* 2 * Math.tan(vFov / 2) * distFromCamera at fov 45 and distance 6: 4.97
VisibleHeight == 497

PhotoData(id, url, chaos, target, timestamp) ==
    [id |-> id, url |-> url, positionChaos |-> chaos, positionTarget |-> target,
     timestamp |-> timestamp]

PhotoIds(ph) == { ph[k].id : k \in DOMAIN ph }

PhotoOf(ph, id) == ph[CHOOSE k \in DOMAIN ph : ph[k].id = id]

\* Math.atan2(z, x) of the point at angle theta around the trunk
Atan2OfAngle(theta) ==
    LET m == theta % RotTurn
    IN  IF m > RotTurn \div 2 THEN m - RotTurn ELSE m

\* new THREE.Euler(0, -Math.atan2(target.z, target.x) + Math.PI / 2, 0)
FormedEuler(target) == [x |-> 0, y |-> 157 - Atan2OfAngle(target.theta)]

\* what a frame reads from its surroundings. From the clock:
\* Math.sin(elapsedTime + randomOffset) * 0.2 and
\* Euler(Math.sin(elapsedTime * 0.1), Math.cos(elapsedTime * 0.1), 0). From the
\* camera, the parent group and the canvas: the point 6 units in front of the
\* camera and the camera's orientation, both in the parent's frame, and the
\* canvas size.
FrameDraws ==
    { [floatY |-> -20, chaosRot |-> [x |-> 0, y |-> 100],
       parent |-> TRUE, screenPos |-> 200, screenRot |-> [x |-> 0, y |-> 0],
       size |-> [width |-> 1280, height |-> 720]],
      [floatY |-> 15, chaosRot |-> [x |-> 48, y |-> 88],
       parent |-> TRUE, screenPos |-> 310, screenRot |-> [x |-> -20, y |-> 35],
       size |-> [width |-> 390, height |-> 844]] }

\* (visibleHeight * padding) / frameH
ScaleH == RoundDiv(VisibleHeight * 85, 270)

\* the doubles that are no finite number, as values apart from every scale:
\* 0 / 0 and what is computed from it; x / 0 for x > 0
NaN == -1000000
Infinity == 1000000

\* (visibleHeight * (size.width / size.height) * padding) / frameW
ScaleW(size) ==
    IF size.height = 0
    THEN IF size.width = 0 THEN NaN ELSE Infinity
    ELSE RoundDiv(VisibleHeight * size.width * 85, size.height * 220)

\* Math.min: NaN if an argument is NaN
MathMin(a, b) == IF NaN \in {a, b} THEN NaN ELSE Min(a, b)

TargetScreenScale(size) == MathMin(ScaleH, ScaleW(size))

\* THREE.MathUtils.lerp and the product of scales, on doubles: NaN goes through
LerpScale(x, y, t, den) == IF NaN \in {x, y} THEN NaN ELSE MathLerp(x, y, t, den)

HoverScale(x) == IF x = NaN THEN NaN ELSE RoundDiv(x * 11, 10)

\* THREE.MathUtils.lerp(zoomProgress.current, targetProgress, 0.1)
ZoomLerp(x, y) == MathLerp(x, y, 1, 10)

\* a snap that always sets zoomProgress to 1
SnapToOne(zp, targetProgress) ==
    IF Abs(zp - targetProgress) < ZoomEps THEN ZUnit ELSE zp

\* a callback without the snap
NoSnap(zp, targetProgress) == zp

\* if (Math.abs(zoomProgress.current - targetProgress) < 0.005) ... = targetProgress
Snap(zp, targetProgress) ==
    IF Abs(zp - targetProgress) < ZoomEps THEN targetProgress ELSE zp

\* the hover enlargement applied whatever isZoomed is
HoverAppliesDocked(hovered, isZoomed) == hovered

\* if (mouseHovered && !isZoomed)
HoverApplies(hovered, isZoomed) == hovered /\ ~isZoomed

\* quaternion.slerpQuaternions(qTree, screenRotLocal, t), on the Euler pair
Slerp(a, b, t) ==
    [x |-> VecLerp(a.x, b.x, t, ZUnit), y |-> VecLerp(a.y, b.y, t, ZUnit)]

\* "3. Interpolate"
Interpolate(t, treePosFloated, treeRot, gs, screenPos, screenRot, screenScale) ==
    IF t >= ZUnit - ZoomEps
    THEN [position |-> screenPos, quaternion |-> screenRot, scale |-> screenScale]
    ELSE IF t <= ZoomEps
    THEN [position |-> treePosFloated, quaternion |-> treeRot, scale |-> gs]
    ELSE [position |-> VecLerp(treePosFloated, screenPos, t, ZUnit),
          quaternion |-> Slerp(treeRot, screenRot, t),
          scale |-> LerpScale(gs, screenScale, t, ZUnit)]

\* the useFrame callback of the PhotoFrame with the given id
PhotoFrameStep(id, clk) ==
    LET data == PhotoOf(photos, id)
        isZoomed == zoomedId = id
        isFormed == treeState = "FORMED"
        treePos == IF isFormed THEN data.positionTarget.y
                               ELSE data.positionChaos.y
        treeRot == IF isFormed THEN FormedEuler(data.positionTarget)
                               ELSE clk.chaosRot
        treePosFloated == treePos + clk.floatY
        targetProgress == IF isZoomed THEN ZUnit ELSE 0
        lerped == ZoomLerp(zoomProgress[id], targetProgress)
        t == Snap(lerped, targetProgress)
        targetScreenScale == TargetScreenScale(clk.size)
        screenPosLocal == IF clk.parent THEN clk.screenPos ELSE 0
        screenRotLocal == IF clk.parent THEN clk.screenRot
                                        ELSE [x |-> 0, y |-> 0]
        blended == Interpolate(t, treePosFloated, treeRot, photoScale,
                               screenPosLocal, screenRotLocal, targetScreenScale)
        hover == HoverApplies(mouseHovered[id], isZoomed)
        out == IF hover
               THEN [blended EXCEPT !.scale = HoverScale(@)]
               ELSE blended
    IN  /\ zoomProgress' = [zoomProgress EXCEPT ![id] = t]
        /\ group' = [group EXCEPT ![id] = out]
        /\ lastDock' = [lastDock EXCEPT ![id] =
               [ran |-> TRUE,
                treePos |-> treePos, treePosFloated |-> treePosFloated,
                treeRot |-> treeRot, globalScale |-> photoScale,
                screenPos |-> screenPosLocal, screenRot |-> screenRotLocal,
                screenScale |-> targetScreenScale,
                targetProgress |-> targetProgress, lerped |-> lerped,
                t |-> t, hovered |-> mouseHovered[id], isZoomed |-> isZoomed,
                parent |-> clk.parent]]

sceneVars == <<treeState, clock, globalScale, uProgress, particles, rotation,
               ran>>

PhotoFrameFrame(id) ==
    /\ \E clk \in FrameDraws : PhotoFrameStep(id, clk)
    /\ UNCHANGED <<photos, photoScale, zoomedId, mouseHovered, sharing, loadPending>>
    /\ UNCHANGED sceneVars
    /\ UNCHANGED ornVars

\* PhotoOrnaments.handleToggleZoom, from a frame's onClick
HandleToggleZoom(id) ==
    /\ zoomedId' = IF zoomedId = id THEN NoId ELSE id
    /\ UNCHANGED <<photos, photoScale, zoomProgress, mouseHovered, group, lastDock,
                   sharing, loadPending>>
    /\ UNCHANGED sceneVars
    /\ UNCHANGED ornVars

\* onPointerOver: the pointer enters a frame it was outside of
PointerOver(id) ==
    /\ ~mouseHovered[id]
    /\ mouseHovered' = [mouseHovered EXCEPT ![id] = TRUE]
    /\ UNCHANGED <<photos, photoScale, zoomedId, zoomProgress, group, lastDock,
                   sharing, loadPending>>
    /\ UNCHANGED sceneVars
    /\ UNCHANGED ornVars

\* onPointerOut
PointerOut(id) ==
    /\ mouseHovered[id]
    /\ mouseHovered' = [mouseHovered EXCEPT ![id] = FALSE]
    /\ UNCHANGED <<photos, photoScale, zoomedId, zoomProgress, group, lastDock,
                   sharing, loadPending>>
    /\ UNCHANGED sceneVars
    /\ UNCHANGED ornVars

-----------------------------------------------------------------------------
(* App.tsx (src/unnamed/part_003) and Overlay: the photo collection.

   A target position is kept in the cylinder coordinates the layout computes
   it from (radius r and height y in 0.01 units, angle theta in 0.01 rad); a
   chaos position in Cartesian coordinates, 0.01 units. *)

MaxPhotos == 2       \* photos in the collection
MaxDockFrames == 2   \* photo frame callbacks of one behaviour of the collection

\* Math.random().toString(36).substr(2, 9)
IdPool == {"p1", "p2"}

\* the height without the half step
LayoutHeightNoHalf(i, n) == 100 + RoundDiv((i + 1) * 900, n)

\* 1 + ((i + 0.5) / count) * 9, for the index i from 0
LayoutHeight(i, n) == 100 + RoundDiv((2 * i + 1) * 900, 2 * n)

\* (1 - (yT / height)) * maxRadius + 1.2
LayoutRadius(yT) == RoundDiv((1100 - yT) * 550, 1100) + 120

\* i * 2.39996
LayoutTheta(i) == RoundDiv(i * 239996, 1000)

LayoutTarget(i, n) ==
    [r |-> LayoutRadius(LayoutHeight(i, n)), theta |-> LayoutTheta(i),
     y |-> LayoutHeight(i, n)]

\* new Vector3(0, 0, 0), the placeholder of handleAddPhoto
ZeroVec == [x |-> 0, y |-> 0, z |-> 0]

LengthSq(v) == v.x * v.x + v.y * v.y + v.z * v.z

\* the test with its comparison turned round
IsPlaceholderInverted(v) == LengthSq(v) > 100

\* !posChaos || (posChaos instanceof Vector3 && posChaos.lengthSq() < 0.01)
IsPlaceholder(v) == LengthSq(v) < 100

\* directions (sin(phi) cos(theta), sin(phi) sin(theta), cos(phi)) the two
\* random angles can give, in fifths
ChaosDirs ==
    { [x |-> 0, y |-> -5, z |-> 0], [x |-> 3, y |-> 0, z |-> -4] }

\* the point of the sphere of radius 18 around (0, 5, 0) in a direction
PhotoChaos(dir) ==
    [x |-> RoundDiv(1800 * dir.x, 5), y |-> RoundDiv(1800 * dir.y, 5) + 500,
     z |-> RoundDiv(1800 * dir.z, 5)]

\* recalculateLayout, with the directions its random draws give per index
RecalculateLayout(currentPhotos, dirs) ==
    LET n == Len(currentPhotos)
    IN  IF n = 0 THEN <<>>
        ELSE [k \in 1 .. n |->
                [currentPhotos[k] EXCEPT
                    !.positionTarget = LayoutTarget(k - 1, n),
                    !.positionChaos = IF IsPlaceholder(@)
                                      THEN PhotoChaos(dirs[k]) ELSE @]]

\* every PhotoFrame is mounted anew
RemountAll(old, init, ph) == [id \in PhotoIds(ph) |-> init[id]]

\* React keeps the PhotoFrame of a key that stays, mounts one for a new key
\* (zoomProgress 0, not hovered, group at positionChaos) and drops the others
Remount(old, init, ph) ==
    [id \in PhotoIds(ph) |-> IF id \in DOMAIN old THEN old[id] ELSE init[id]]

\* setPhotos(next) and the render that follows
SetPhotos(next) ==
    /\ photos' = next
    /\ zoomProgress' = Remount(zoomProgress, [id \in PhotoIds(next) |-> 0], next)
    /\ mouseHovered' = Remount(mouseHovered, [id \in PhotoIds(next) |-> FALSE], next)
    /\ group' = Remount(group,
                        [id \in PhotoIds(next) |->
                            [position |-> PhotoOf(next, id).positionChaos.y,
                             quaternion |-> [x |-> 0, y |-> 0], scale |-> 100]],
                        next)
    /\ lastDock' = Remount(lastDock, [id \in PhotoIds(next) |-> NoDock], next)

\* handleSetPhotos: setPhotos(prev => recalculateLayout(next))
HandleSetPhotos(next) ==
    \E dirs \in [1 .. Len(next) -> ChaosDirs] :
        SetPhotos(RecalculateLayout(next, dirs))

\* Date.now() of a new photo: not before the timestamps there are
Timestamps(ph) ==
    LET last == IF ph = <<>> THEN 1 ELSE ph[Len(ph)].timestamp
    IN  {last, Min(last + 1, MaxPhotos)}

collectionRest == <<photoScale, zoomedId, loadPending>>

\* App.handleAddPhoto
HandleAddPhoto ==
    /\ Len(photos) < MaxPhotos
    /\ \E id \in IdPool \ PhotoIds(photos), ts \in Timestamps(photos) :
          HandleSetPhotos(Append(photos, PhotoData(id, "blob", ZeroVec, ZeroVec, ts)))
    /\ UNCHANGED <<collectionRest, sharing>>
    /\ UNCHANGED sceneVars
    /\ UNCHANGED ornVars

\* [...prev].sort(...): the stable sort by timestamp
RECURSIVE SortPhotos(_, _)
SortPhotos(ph, order) ==
    IF ph = <<>> THEN <<>>
    ELSE LET h == Head(ph)
             rest == SortPhotos(Tail(ph), order)
             First(e) == IF order = "newest" THEN e.timestamp > h.timestamp
                                             ELSE e.timestamp < h.timestamp
             k == Cardinality({j \in 1 .. Len(rest) : First(rest[j])})
         IN  SubSeq(rest, 1, k) \o <<h>> \o SubSeq(rest, k + 1, Len(rest))

\* Overlay.handleSort
HandleSort(order) ==
    /\ HandleSetPhotos(SortPhotos(photos, order))
    /\ UNCHANGED <<collectionRest, sharing>>
    /\ UNCHANGED sceneVars
    /\ UNCHANGED ornVars

\* prev.filter(p => p.id !== id)
Filter(ph, id) ==
    LET RECURSIVE Keep(_)
        Keep(k) == IF k > Len(ph) THEN <<>>
                   ELSE IF ph[k].id # id THEN <<ph[k]>> \o Keep(k + 1)
                        ELSE Keep(k + 1)
    IN  Keep(1)

\* Overlay.handleDeletePhoto
HandleDeletePhoto(id) ==
    /\ HandleSetPhotos(Filter(photos, id))
    /\ UNCHANGED <<collectionRest, sharing>>
    /\ UNCHANGED sceneVars
    /\ UNCHANGED ornVars

\* Overlay.handleShare up to its first await: the photos it will upload
ShareStart ==
    /\ ~sharing.running
    /\ Len(photos) > 0
    /\ sharing' = [running |-> TRUE, photos |-> photos, rewritten |-> FALSE]
    /\ UNCHANGED <<photos, zoomProgress, mouseHovered, group, lastDock>>
    /\ UNCHANGED collectionRest
    /\ UNCHANGED sceneVars
    /\ UNCHANGED ornVars

\* Overlay.handleShare after the uploads: setPhotos(updatedPhotos), the
\* captured photos with the blob urls replaced
ShareFinish ==
    /\ sharing.running
    /\ ~ sharing.rewritten
    /\ HandleSetPhotos([k \in 1 .. Len(sharing.photos) |->
                           [sharing.photos[k] EXCEPT !.url = "public"]])
    /\ sharing' = [sharing EXCEPT !.rewritten = TRUE]
    /\ UNCHANGED collectionRest
    /\ UNCHANGED sceneVars
    /\ UNCHANGED ornVars

\* Overlay.handleShare after the insert into the trees table: setShareUrl,
\* setIsUploading(false)
ShareDone ==
    /\ sharing.running
    /\ sharing.rewritten
    /\ sharing' = NoShare
    /\ UNCHANGED <<photos, zoomProgress, mouseHovered, group, lastDock>>
    /\ UNCHANGED collectionRest
    /\ UNCHANGED sceneVars
    /\ UNCHANGED ornVars

\* Overlay.handleShare when an upload or the insert throws: catch, finally
ShareFail ==
    /\ sharing.running
    /\ sharing' = NoShare
    /\ UNCHANGED <<photos, zoomProgress, mouseHovered, group, lastDock>>
    /\ UNCHANGED collectionRest
    /\ UNCHANGED sceneVars
    /\ UNCHANGED ornVars

\* rows of the trees table a share id can name: one written by handleShare
\* from a collection of two photos with its config, and one in the old format
\* (a bare array of photos) whose positions come from whoever wrote the row
StoredTrees ==
    { [photos |-> << PhotoData("p1", "public", PhotoChaos([x |-> 0, y |-> 5, z |-> 0]),
                               LayoutTarget(0, 2), 1),
                     PhotoData("p2", "public", PhotoChaos([x |-> 3, y |-> 0, z |-> -4]),
                               LayoutTarget(1, 2), 2) >>,
       config |-> [given |-> TRUE, ornamentScale |-> 150, photoScale |-> 100]],
      [photos |-> << PhotoData("p2", "public", PhotoChaos([x |-> 0, y |-> -5, z |-> 0]),
                               [r |-> 300, theta |-> 0, y |-> 800], 1),
                     PhotoData("p1", "public", ZeroVec,
                               [r |-> 450, theta |-> 157, y |-> 300], 1) >>,
       config |-> [given |-> FALSE, ornamentScale |-> 0, photoScale |-> 0]] }

\* App.loadSharedTree after its await, data found: setPhotos(loadedPhotos),
\* setConfig, setTreeState('FORMED'); a new ornamentScale re-runs the
\* ornaments' layout effect
LoadFinish ==
    /\ loadPending
    /\ loadPending' = FALSE
    /\ \E tree \in StoredTrees :
          /\ SetPhotos(tree.photos)
          /\ photoScale' = IF tree.config.given THEN tree.config.photoScale
                                                ELSE photoScale
          /\ globalScale' = IF tree.config.given THEN tree.config.ornamentScale
                                                 ELSE globalScale
          /\ IF tree.config.given /\ tree.config.ornamentScale # globalScale
             THEN /\ instanceMatrix' = Relayout(ornaments, instanceMatrix,
                                                tree.config.ornamentScale)
                  /\ instanceColor' = LayoutColor(ornaments)
                  /\ colorDirty' = (Len(ornaments) > 0)
             ELSE UNCHANGED <<instanceMatrix, instanceColor, colorDirty>>
    /\ treeState' = "FORMED"
    /\ runStart' = [i \in DOMAIN instanceMatrix' |-> instanceMatrix'[i].pos]
    /\ runLen' = 0
    /\ UNCHANGED <<ran, rotation, clock, uProgress, ornaments, twinkle, frames, lastFrame,
                   ornamentCount, particles>>
    /\ UNCHANGED <<zoomedId, sharing>>

\* App.loadSharedTree when the query fails or finds nothing
LoadFail ==
    /\ loadPending
    /\ loadPending' = FALSE
    /\ UNCHANGED <<photos, photoScale, zoomedId, zoomProgress, mouseHovered,
                   group, lastDock, sharing>>
    /\ UNCHANGED sceneVars
    /\ UNCHANGED ornVars

-----------------------------------------------------------------------------
(* The generators of Ornaments.tsx and Foliage.tsx.  A generated position is
   kept in three dimensions: a target position in cylinder coordinates
   [r, theta, y], a chaos position in Cartesian coordinates. *)

MaxOrnamentCount == 2   \* largest ornament count a change sets
NumParticles == 2       \* foliage particles (count = 15000 in the code)

\* a point of the ball, halfway from the centre
SpherePointInside(radius, dir, lift) ==
    [x |-> RoundDiv(radius * dir.x, 10), y |-> RoundDiv(radius * dir.y, 10) + lift,
     z |-> RoundDiv(radius * dir.z, 10)]

\* the point of the sphere of a radius around (0, lift, 0) in a direction
SpherePoint(radius, dir, lift) ==
    [x |-> RoundDiv(radius * dir.x, 5), y |-> RoundDiv(radius * dir.y, 5) + lift,
     z |-> RoundDiv(radius * dir.z, 5)]

\* the random numbers of one pass of the ornament loop: pow = Math.pow(
\* Math.random(), 1.8) and shell = 0.8 + Math.random() * 0.2 in 1/100, theta,
\* chaosR = 20 + Math.random() * 10, the direction of the two chaos angles,
\* and the draws of colour, type, scale, speed and rotationSpeed
OrnamentDraws ==
    { [pow |-> 0, shell |-> 80, theta |-> 0, chaosR |-> 2000,
       dir |-> [x |-> 0, y |-> -5, z |-> 0], color |-> 1, type |-> "sphere",
       scale |-> 20, speed |-> Speeds[1], rotationSpeed |-> 0],
      [pow |-> 99, shell |-> 99, theta |-> 314, chaosR |-> 2999,
       dir |-> [x |-> 3, y |-> 0, z |-> -4], color |-> 2, type |-> "box",
       scale |-> 59, speed |-> Speeds[2], rotationSpeed |-> 1],
      [pow |-> 50, shell |-> 90, theta |-> 157, chaosR |-> 2500,
       dir |-> [x |-> 0, y |-> 5, z |-> 0], color |-> 3, type |-> "sphere",
       scale |-> 40, speed |-> Speeds[1], rotationSpeed |-> 1] }

\* the body of the ornament loop: height 11.5, maxRadius 5.0
GenerateOrnament(d) ==
    LET yT == RoundDiv(d.pow * 1150 * 9, 1000) + 50
        radiusAtY == RoundDiv((1150 - yT) * 500, 1150)
        r == RoundDiv(radiusAtY * d.shell, 100)
    IN  [positionChaos |-> SpherePoint(d.chaosR, d.dir, 500),
         positionTarget |-> [r |-> r, theta |-> d.theta, y |-> yT],
         color |-> palette[d.color], type |-> d.type, scale |-> d.scale,
         speed |-> d.speed, rotationSpeed |-> d.rotationSpeed]

\* for (let i = from; i < count; i++) data.push(...)
RECURSIVE OrnamentLoop(_, _, _, _)
OrnamentLoop(i, cnt, draws, data) ==
    IF i < cnt
    THEN OrnamentLoop(i + 1, cnt, draws, Append(data, GenerateOrnament(draws[i + 1])))
    ELSE data

\* the loop started at 1
GenerateOrnamentsFromOne(cnt, draws) == OrnamentLoop(1, cnt, draws, <<>>)

\* the useMemo of Ornaments: the ornament data of a count
GenerateOrnaments(cnt, draws) == OrnamentLoop(0, cnt, draws, <<>>)

\* config.ornamentCount changes: the data is generated anew, the instanced
\* mesh is made anew for the count, and the layout effect fills it; the
\* twinkle ref stays
OrnamentCountChange(cnt, data) ==
    /\ cnt # ornamentCount
    /\ ornamentCount' = cnt
    /\ ornaments' = data
    /\ instanceMatrix' = Relayout(data, instanceMatrix, globalScale)
    /\ instanceColor' = LayoutColor(data)
    /\ colorDirty' = (cnt > 0)
    /\ runStart' = [i \in DOMAIN instanceMatrix' |-> instanceMatrix'[i].pos]
    /\ runLen' = 0
    /\ UNCHANGED <<twinkle, frames, lastFrame>>
    /\ UNCHANGED sceneVars
    /\ UNCHANGED photoVars

\* Overlay.handleOrnamentCountChange
HandleOrnamentCountChange(cnt) ==
    \E draws \in [1 .. cnt -> OrnamentDraws] :
        OrnamentCountChange(cnt, GenerateOrnaments(cnt, draws))

\* the y axis of generated ornaments, which the movement of the model works on
AlongY(orn) ==
    [k \in DOMAIN orn |->
        OrnamentData(orn[k].positionChaos.y, orn[k].positionTarget.y, orn[k].color,
                     orn[k].scale, orn[k].speed, orn[k].rotationSpeed)]

HandleOrnamentCountChangeY(cnt) ==
    \E draws \in [1 .. cnt -> OrnamentDraws] :
        OrnamentCountChange(cnt, AlongY(GenerateOrnaments(cnt, draws)))

\* values of the ornament scale slider, in 1/100
OrnamentScales == {100, 150}

\* Overlay.handleOrnamentScaleChange: config.ornamentScale changes and the
\* layout effect of Ornaments, which depends on globalScale, runs again
HandleOrnamentScaleChange(gs) ==
    /\ gs # globalScale
    /\ globalScale' = gs
    /\ instanceMatrix' = Relayout(ornaments, instanceMatrix, gs)
    /\ instanceColor' = LayoutColor(ornaments)
    /\ colorDirty' = (Len(ornaments) > 0)
    /\ runStart' = [i \in DOMAIN instanceMatrix' |-> instanceMatrix'[i].pos]
    /\ runLen' = 0
    /\ UNCHANGED <<ornaments, twinkle, frames, lastFrame, ornamentCount>>
    /\ UNCHANGED <<treeState, clock, uProgress, particles, rotation, ran>>
    /\ UNCHANGED photoVars

\* the random numbers of one pass of the foliage loop: the direction of the
\* two chaos angles, radiusChaos = 15 + Math.random() * 10, yT =
\* Math.random() * 12, spread = Math.sqrt(Math.random()) and the last
\* Math.random(), the last two in 1/100
FoliageDraws ==
    { [dir |-> [x |-> 0, y |-> -5, z |-> 0], radiusChaos |-> 1500, yT |-> 0,
       spread |-> 0, random |-> 0],
      [dir |-> [x |-> 3, y |-> 0, z |-> -4], radiusChaos |-> 2499, yT |-> 1199,
       spread |-> 99, random |-> 99] }

\* the body of the foliage loop for the particle i: height 12, maxRadius 5.5
GenerateParticle(i, d) ==
    LET radiusAtY == RoundDiv((1200 - d.yT) * 550, 1200)
    IN  [chaos |-> SpherePoint(d.radiusChaos, d.dir, 600),
         target |-> [r |-> RoundDiv(d.spread * radiusAtY, 100), theta |-> i * 240,
                     y |-> d.yT],
         random |-> d.random]

\* the useMemo of Foliage
GenerateFoliage(cnt, draws) == [i \in 0 .. (cnt - 1) |-> GenerateParticle(i, draws[i])]

FoliageGenerations ==
    { GenerateFoliage(NumParticles, draws) :
        draws \in [0 .. (NumParticles - 1) -> FoliageDraws] }

DefaultParticles ==
    GenerateFoliage(NumParticles,
                    [i \in 0 .. (NumParticles - 1) |->
                        [dir |-> [x |-> 0, y |-> -5, z |-> 0], radiusChaos |-> 1500,
                         yT |-> 0, spread |-> 0, random |-> 0]])

-----------------------------------------------------------------------------
(* One rendered frame: the frame loop calls every subscribed callback, the
   foliage's and the ornaments' among them *)

SceneFrame(dt) ==
    /\ FoliageStep
    /\ OrnamentsStep(dt)
    /\ UNCHANGED <<treeState, globalScale, particles, rotation, ran>>
    /\ UNCHANGED photoVars

-----------------------------------------------------------------------------
(* App.toggleState *)

\* a toggle on which the ornaments' layout effect ran again
ToggleStateRelayout ==
    /\ treeState' = IF treeState = "CHAOS" THEN "FORMED" ELSE "CHAOS"
    /\ instanceMatrix' = LayoutMatrix(ornaments, globalScale)
    /\ runStart' = [i \in DOMAIN instanceMatrix |-> instanceMatrix[i].pos]
    /\ runLen' = 0
    /\ UNCHANGED <<ran, rotation, clock, globalScale, ornaments, instanceColor, twinkle,
                   colorDirty, uProgress, frames, lastFrame, ornamentCount,
                   particles>>
    /\ UNCHANGED photoVars

\* setTreeState(prev => prev === 'CHAOS' ? 'FORMED' : 'CHAOS'); neither the
\* ornaments' layout effect nor the foliage's uniforms depend on treeState
ToggleState ==
    /\ treeState' = IF treeState = "CHAOS" THEN "FORMED" ELSE "CHAOS"
    /\ runStart' = [i \in DOMAIN instanceMatrix |-> instanceMatrix[i].pos]
    /\ runLen' = 0
    /\ UNCHANGED <<ran, rotation, clock, globalScale, ornaments, instanceMatrix, instanceColor,
                   twinkle, colorDirty, uProgress, frames, lastFrame,
                   ornamentCount, particles>>
    /\ UNCHANGED photoVars

-----------------------------------------------------------------------------
(* Specifications *)

\* generated ornaments (x axis, 0.01 units): chaos radius 20 to 30, target
\* inside the cone, scale 0.2 to 0.6, rotationSpeed below 0.02 rad
TwinkleData ==
    [i \in 1 .. NumOrnaments |->
        OrnamentData(2000 + 100 * (i % 3), 50 * (i % 4), palette[(i % 4) + 1],
                     40, Speeds[(i % 2) + 1], 1)]

BlendData ==
    << OrnamentData(2400, 0, GOLD, 40, Speeds[1], 1),
       OrnamentData(2610, 105, RED_VELVET, 30, Speeds[2], 0) >>

InitScene(orn, ph, fol) ==
    /\ treeState = "CHAOS"
    /\ clock = 0
    /\ globalScale = 100
    /\ ornaments = orn
    /\ instanceMatrix = LayoutMatrix(orn, 100)
    /\ instanceColor = LayoutColor(orn)
    /\ twinkle = [active |-> <<>>, nextTwinkleTime |-> 0]
    /\ colorDirty = (Len(orn) > 0)
    /\ uProgress = 0
    /\ runStart = [i \in 0 .. (Len(orn) - 1) |-> orn[i + 1].positionChaos]
    /\ runLen = 0
    /\ frames = 0
    /\ lastFrame = [trigger |-> [attempts |-> 0, newIndex |-> 0, started |-> FALSE],
                    completed |-> <<>>]
    /\ photos = ph
    /\ photoScale = 100
    /\ zoomedId = NoId
    /\ zoomProgress = [id \in PhotoIds(ph) |-> 0]
    /\ mouseHovered = [id \in PhotoIds(ph) |-> FALSE]
    /\ group = [id \in PhotoIds(ph) |->
                  [position |-> PhotoOf(ph, id).positionChaos.y,
                   quaternion |-> [x |-> 0, y |-> 0], scale |-> 100]]
    /\ lastDock = [id \in PhotoIds(ph) |-> NoDock]
    /\ sharing = NoShare
    /\ ornamentCount = Len(orn)
    /\ particles = fol
    /\ rotation = [x |-> 0, y |-> 0]
    /\ ran = [calls |-> 0, log |-> <<>>]

InitBase(orn, ph) == InitScene(orn, ph, DefaultParticles)

\* the page opened without a share id
InitWith(orn, ph) ==
    /\ InitBase(orn, ph)
    /\ loadPending = FALSE

InitTwinkle == InitWith(TwinkleData, <<>>)

TwinkleFrame ==
    /\ frames < MaxFrames
    /\ \E dt \in Deltas : OrnamentsFrame(dt)

NextTwinkle == TwinkleFrame

SpecTwinkle == InitTwinkle /\ [][NextTwinkle]_vars

\* the foliage callback alone, any number of frames
InitFoliage == InitWith(<<>>, <<>>)

NextFoliage == ToggleState \/ FoliageFrame

SpecFoliage == InitFoliage /\ [][NextFoliage]_vars

\* whole frames at a stopped clock (the twinkle scheduler stays idle) with
\* toggles of the scene state in between
InitBlend == InitWith(BlendData, <<>>)

BlendFrame ==
    /\ frames < MaxFrames
    /\ SceneFrame(0)

NextBlend == ToggleState \/ BlendFrame

SpecBlend == InitBlend /\ [][NextBlend]_vars

\* one photo on the tree (App.recalculateLayout of a single photo: height
\* 5.5, radius 3.95, angle 0; the chaos position on the sphere of radius 18
\* around (0, 5, 0)), its frame callback, clicks, the pointer and toggles
DockData ==
    << PhotoData("p1", "blob", [x |-> 0, y |-> 2300, z |-> 0],
                 [r |-> 395, theta |-> 0, y |-> 550], 1) >>

InitDock == InitWith(<<>>, DockData)

NextDock ==
    \/ ToggleState
    \/ \E id \in PhotoIds(photos) :
          \/ PhotoFrameFrame(id)
          \/ HandleToggleZoom(id)
          \/ PointerOver(id)
          \/ PointerOut(id)

SpecDock == InitDock /\ [][NextDock]_vars

DockIds == PhotoIds(DockData)

\* the frames and the clicks of a photo frame alone (zoomProgress reads
\* neither the scene state nor the pointer); the frame loop keeps calling the
\* callback of every mounted frame
NextZoom ==
    \E id \in PhotoIds(photos) : PhotoFrameFrame(id) \/ HandleToggleZoom(id)

SpecZoomLive ==
    /\ InitDock
    /\ [][NextZoom]_vars
    /\ \A id \in DockIds : WF_vars(PhotoFrameFrame(id))

\* the photo collection: the page opens with or without a share id; photos
\* are added, sorted, deleted and shared
InitPhotos ==
    /\ InitBase(<<>>, <<>>)
    /\ loadPending \in BOOLEAN

PhotosFrame(id) ==
    /\ frames < MaxDockFrames
    /\ frames' = frames + 1
    /\ \E clk \in FrameDraws : PhotoFrameStep(id, clk)
    /\ UNCHANGED <<photos, photoScale, zoomedId, mouseHovered, sharing, loadPending>>
    /\ UNCHANGED sceneVars
    /\ UNCHANGED <<ornaments, instanceMatrix, instanceColor, twinkle, colorDirty,
                   runStart, runLen, lastFrame, ornamentCount>>

NextPhotos ==
    \/ HandleAddPhoto
    \/ \E order \in {"newest", "oldest"} : HandleSort(order)
    \/ \E id \in PhotoIds(photos) : HandleDeletePhoto(id)
    \/ ShareStart
    \/ ShareFinish
    \/ ShareDone
    \/ ShareFail
    \/ LoadFinish
    \/ LoadFail

SpecPhotos == InitPhotos /\ [][NextPhotos]_vars

\* the collection changing under mounted photo frames: photos are added,
\* sorted and deleted, frames are clicked, the scene state is toggled, and a
\* few frames are rendered
NextKeyed ==
    \/ HandleAddPhoto
    \/ \E order \in {"newest", "oldest"} : HandleSort(order)
    \/ ToggleState
    \/ \E id \in PhotoIds(photos) :
          \/ HandleDeletePhoto(id)
          \/ HandleToggleZoom(id)
          \/ PhotosFrame(id)

SpecKeyed == InitWith(<<>>, <<>>) /\ [][NextKeyed]_vars

\* ------------------------------------------------------------------
\* RotatingTreeGroup
\* ------------------------------------------------------------------

MaxRotFrames == 4    \* callbacks of the rotating group in one behaviour

\* delta of a frame, in milliseconds: 60 Hz, a slow frame, and the first frame
\* after the page was in the background
RotDeltas == {16, 100, 1500}

\* Math.sin(state.clock.elapsedTime * 0.5) * 0.1, in 1/10000 rad
TiltDraws == {-1000, 350, 1000}

\* rotSpeed * delta: config.rotationSpeed (0.5) * 0.5 when formed, 0.02 in
\* chaos, 0 when zoomed
RotAdvance(isFormed, isZoomed, delta) ==
    IF isZoomed THEN 0
    ELSE IF isFormed THEN RoundDiv(25 * delta, 10)
    ELSE RoundDiv(2 * delta, 10)

\* the tilt: lerp(x, sin(...) * 0.1, delta) in chaos when not zoomed,
\* lerp(x, 0, delta * 2) when formed or zoomed
Tilt(x, isFormed, isZoomed, delta, osc) ==
    IF ~isFormed /\ ~isZoomed THEN MathLerp(x, osc, delta, 1000)
    ELSE MathLerp(x, 0, 2 * delta, 1000)

\* <OrbitControls enabled={!zoomedId} />
OrbitEnabled == zoomedId = NoId

\* the useFrame callback of RotatingTreeGroup
RotatingStep ==
    \E delta \in RotDeltas, osc \in TiltDraws :
        LET isFormed == treeState = "FORMED"
            isZoomed == zoomedId # NoId
        IN  rotation' =
              [x |-> Tilt(rotation.x, isFormed, isZoomed, delta, osc),
               y |-> rotation.y + RotAdvance(isFormed, isZoomed, delta)]

RotatingFrame ==
    /\ frames < MaxRotFrames
    /\ frames' = frames + 1
    /\ RotatingStep
    /\ UNCHANGED <<treeState, clock, globalScale, uProgress, particles, ran>>
    /\ UNCHANGED photoVars
    /\ UNCHANGED <<ornaments, instanceMatrix, instanceColor, twinkle, colorDirty,
                   runStart, runLen, lastFrame, ornamentCount>>

\* the rotating group with one photo: frames, clicks on the photo, toggles
NextRotate ==
    \/ RotatingFrame
    \/ ToggleState
    \/ \E id \in PhotoIds(photos) : HandleToggleZoom(id)

SpecRotate == InitDock /\ [][NextRotate]_vars

\* ------------------------------------------------------------------
\* The frame loop: the order of the useFrame callbacks
\* ------------------------------------------------------------------

MaxLoopFrames == 2   \* rendered frames of one behaviour of the loop

\* the order in which the components subscribe: useFrame subscribes in a
\* layout effect, and the layout effects of a subtree run children first
\* (Foliage, Ornaments and the PhotoFrames are children of RotatingTreeGroup)
MountOrder == <<"Foliage", "Ornaments", "PhotoFrame", "RotatingTreeGroup">>

\* every callback subscribed with the default priority
PriorityDefault(c) == 0

\* the renderPriority argument of useFrame
Priority(c) == IF c = "PhotoFrame" THEN 1000 ELSE 0

\* subscribe: push, then the stable sort by priority
Subscribe(subs, c) ==
    LET k == Cardinality({j \in 1 .. Len(subs) : Priority(subs[j]) <= Priority(c)})
    IN  SubSeq(subs, 1, k) \o <<c>> \o SubSeq(subs, k + 1, Len(subs))

RECURSIVE Subscribed(_)
Subscribed(k) ==
    IF k = 0 THEN <<>> ELSE Subscribe(Subscribed(k - 1), MountOrder[k])

Subscribers == Subscribed(Len(MountOrder))

BetweenFrames == ran.calls \in {0, Len(Subscribers)}

\* the callback c is the next one the loop calls
NextIs(c) ==
    /\ Subscribers[(ran.calls % Len(Subscribers)) + 1] = c
    /\ BetweenFrames => frames < MaxLoopFrames

Logged(steps) ==
    IF ran.calls = Len(Subscribers)
    THEN [calls |-> 1, log |-> steps]
    ELSE [calls |-> ran.calls + 1, log |-> ran.log \o steps]

LoopFoliage ==
    /\ NextIs("Foliage")
    /\ FoliageStep
    /\ ran' = Logged(<<"Foliage">>)
    /\ UNCHANGED <<treeState, clock, globalScale, particles, rotation>>
    /\ UNCHANGED ornVars
    /\ UNCHANGED photoVars

\* the callback of Ornaments: the movement loop, then the twinkle logic
LoopOrnaments ==
    /\ NextIs("Ornaments")
    /\ OrnamentsStep(2)
    /\ ran' = Logged(<<"Ornaments.blend", "Ornaments.twinkle">>)
    /\ UNCHANGED <<treeState, globalScale, uProgress, particles, rotation>>
    /\ UNCHANGED photoVars

LoopRotating ==
    /\ NextIs("RotatingTreeGroup")
    /\ RotatingStep
    /\ ran' = Logged(<<"RotatingTreeGroup">>)
    /\ UNCHANGED <<treeState, clock, globalScale, uProgress, particles>>
    /\ UNCHANGED ornVars
    /\ UNCHANGED photoVars

LoopPhotoFrame ==
    /\ NextIs("PhotoFrame")
    /\ \E id \in PhotoIds(photos), clk \in FrameDraws : PhotoFrameStep(id, clk)
    /\ ran' = Logged(<<"PhotoFrame">>)
    /\ UNCHANGED <<photos, photoScale, zoomedId, mouseHovered, sharing, loadPending>>
    /\ UNCHANGED <<treeState, clock, globalScale, uProgress, particles, rotation>>
    /\ UNCHANGED ornVars

\* events are handled between two frames
LoopToggleState == BetweenFrames /\ ToggleState

LoopToggleZoom == BetweenFrames /\ \E id \in PhotoIds(photos) : HandleToggleZoom(id)

InitLoop == InitScene(BlendData, DockData, DefaultParticles) /\ loadPending = FALSE

NextLoop ==
    \/ LoopFoliage
    \/ LoopOrnaments
    \/ LoopRotating
    \/ LoopPhotoFrame
    \/ LoopToggleState
    \/ LoopToggleZoom

SpecLoop == InitLoop /\ [][NextLoop]_vars

\* ------------------------------------------------------------------
\* The ornaments under changes of the configuration
\* ------------------------------------------------------------------

MaxConfigFrames == 2   \* ornament frames of one behaviour with config changes

\* two ornaments, a gold one and a red one
InitConfig ==
    /\ \E draws \in [1 .. 2 -> OrnamentDraws] :
          /\ draws[1].color = 1
          /\ draws[2].color = 2
          /\ InitScene(AlongY(GenerateOrnaments(2, draws)), <<>>, DefaultParticles)
    /\ loadPending = FALSE

ConfigFrame ==
    /\ frames < MaxConfigFrames
    /\ \E dt \in Deltas : OrnamentsFrame(dt)

NextConfig ==
    \/ ConfigFrame
    \/ ToggleState
    \/ \E gs \in OrnamentScales : HandleOrnamentScaleChange(gs)
    \/ \E cnt \in 1 .. MaxOrnamentCount : HandleOrnamentCountChangeY(cnt)

SpecConfig == InitConfig /\ [][NextConfig]_vars

\* frames in which the surroundings are not as usual: the group has no
\* parent, or the canvas has height 0, or width and height 0
EdgeDraws ==
    { [floatY |-> 15, chaosRot |-> [x |-> 48, y |-> 88],
       parent |-> FALSE, screenPos |-> 310, screenRot |-> [x |-> -20, y |-> 35],
       size |-> [width |-> 1280, height |-> 720]],
      [floatY |-> -20, chaosRot |-> [x |-> 0, y |-> 100],
       parent |-> TRUE, screenPos |-> 200, screenRot |-> [x |-> 0, y |-> 0],
       size |-> [width |-> 1280, height |-> 0]],
      [floatY |-> -20, chaosRot |-> [x |-> 0, y |-> 100],
       parent |-> TRUE, screenPos |-> 200, screenRot |-> [x |-> 0, y |-> 0],
       size |-> [width |-> 0, height |-> 0]] }

EdgeFrame(id) ==
    /\ \E clk \in FrameDraws \cup EdgeDraws : PhotoFrameStep(id, clk)
    /\ UNCHANGED <<photos, photoScale, zoomedId, mouseHovered, sharing, loadPending>>
    /\ UNCHANGED sceneVars
    /\ UNCHANGED ornVars

\* one photo frame under usual and unusual frames, clicks and the pointer
NextEdge ==
    \E id \in PhotoIds(photos) :
        \/ EdgeFrame(id)
        \/ HandleToggleZoom(id)
        \/ PointerOver(id)
        \/ PointerOut(id)

SpecEdge == InitDock /\ [][NextEdge]_vars

\* the three frame callbacks together: whole frames of the tree at a stopped
\* clock, frames of one photo frame, clicks and toggles of the scene state
InitFrames ==
    /\ InitScene(BlendData, DockData, DefaultParticles)
    /\ loadPending = FALSE

NextFrames ==
    \/ ToggleState
    \/ BlendFrame
    \/ \E id \in PhotoIds(photos) : PhotosFrame(id) \/ HandleToggleZoom(id)

SpecFrames == InitFrames /\ [][NextFrames]_vars

\* the generators: the foliage and one ornament are generated at mount, the
\* ornament count changes, photos are added, sorted and deleted
InitLayout ==
    /\ \E fol \in FoliageGenerations, draws \in [1 .. 1 -> OrnamentDraws] :
          InitScene(GenerateOrnaments(1, draws), <<>>, fol)
    /\ loadPending = FALSE

NextLayout ==
    \/ \E cnt \in 0 .. MaxOrnamentCount : HandleOrnamentCountChange(cnt)
    \/ HandleAddPhoto
    \/ \E order \in {"newest", "oldest"} : HandleSort(order)
    \/ \E id \in PhotoIds(photos) : HandleDeletePhoto(id)

SpecLayout == InitLayout /\ [][NextLayout]_vars

-----------------------------------------------------------------------------
(* Twinkle scheduler: claims *)

Range(f) == { f[x] : x \in DOMAIN f }

\* the tasks of a list that have not completed at the given time, in order
Uncompleted(active, time) ==
    LET RECURSIVE Keep(_)
        Keep(k) == IF k > Len(active) THEN <<>>
                   ELSE IF Completed(active[k], time)
                        THEN Keep(k + 1)
                        ELSE <<active[k]>> \o Keep(k + 1)
    IN  Keep(1)

\* C1: at the end of every frame at most maxActiveTwinkles = 5 twinkle tasks
\* are active.
C1_ActiveAtMostK == Len(twinkle.active) <= maxActiveTwinkles

\* the last frame began with five active tasks and, past the cadence time,
\* made no start attempt: the cap is what held the trigger back
C1_Witness ==
    /\ Len(twinkle.active) + Len(lastFrame.completed) = maxActiveTwinkles
    /\ clock > twinkle.nextTwinkleTime
    /\ lastFrame.trigger.attempts = 0
    /\ frames > 0

\* C2: no two tasks of the active list have the same ornament index.
C2_DistinctIndices ==
    \A j, k \in 1 .. Len(twinkle.active) :
        j # k => twinkle.active[j].index # twinkle.active[k].index

\* a task was started after draws that collided with an active index
C2_Witness ==
    /\ lastFrame.trigger.started
    /\ lastFrame.trigger.attempts > 1
    /\ Len(twinkle.active) >= 2

\* C3: a task started in a frame snapshots the colour its index held before
\* that frame, and on the frame a task completes the colour-buffer entry of
\* its index is that snapshot.
C3_RoundTrip ==
    [][ /\ \A k \in 1 .. Len(twinkle.active) :
              LET t == twinkle.active[k]
              IN  Completed(t, clock') => instanceColor'[t.index] = t.originalColor
        /\ \A k \in 1 .. Len(twinkle'.active) :
              LET t == twinkle'.active[k]
              IN  t \notin Range(twinkle.active)
                    => t.originalColor = instanceColor[t.index] ]_vars

\* the last frame restored a task whose entry had been flashed to another
\* colour, while another task's flash is still showing
C3_Witness ==
    /\ Len(lastFrame.completed) > 0
    /\ \E k \in 1 .. Len(twinkle.active) :
          LET t == twinkle.active[k]
          IN  instanceColor[t.index] # t.originalColor

\* C4: the tasks that complete in a frame are removed in that frame and only
\* they: every task that has not completed stays, unchanged and in order, and
\* the only other task of the list is the one the frame started.
C4_ExactRemoval ==
    [][ clock' # clock \/ twinkle' # twinkle =>
          LET kept == Uncompleted(twinkle.active, clock')
              now == twinkle'.active
          IN  /\ Len(now) \in {Len(kept), Len(kept) + 1}
              /\ SubSeq(now, 1, Len(kept)) = kept
              /\ \A k \in 1 .. Len(now) : ~Completed(now[k], clock') ]_vars

\* the last frame removed two or more tasks and a task that was ahead of one
\* of them in the list stayed
C4_Witness ==
    /\ Len(lastFrame.completed) >= 2
    /\ Len(twinkle.active) >= 1
    /\ lastFrame.completed[Len(lastFrame.completed)] > Len(lastFrame.completed) - 1
    /\ ~lastFrame.trigger.started

-----------------------------------------------------------------------------
(* State blend: claims *)

TargetProgress(st) == IF st = "FORMED" THEN PUnit ELSE 0

SelectedPose(data, st) ==
    IF st = "FORMED" THEN data.positionTarget ELSE data.positionChaos

\* x to the power n
RECURSIVE Pow(_, _)
Pow(x, n) == IF n = 0 THEN 1 ELSE x * Pow(x, n - 1)

\* p1 is p0 moved 0.02 of the way toward target, to the nearest step
MovedTowardByRate(p0, p1, target) ==
    2 * Abs(100 * p1 - ((100 - FoliageRateNum) * p0 + FoliageRateNum * target)) <= 100

\* x1 is x0 moved speed of the way toward pose, to the nearest step
LerpedByWeight(x0, x1, pose, speed) ==
    2 * Abs(speed.den * (x1 - x0) - speed.num * (pose - x0)) <= speed.den

\* C5: the foliage progress starts at 0, every frame moves it 0.02 of the way
\* toward the target of the scene state, it stays within [0, 1] under any
\* toggles, and while the state is FORMED it never decreases.
C5_FoliageProgress ==
    /\ uProgress = 0
    /\ [](uProgress >= 0 /\ uProgress <= PUnit)
    /\ [][ uProgress' # uProgress =>
            /\ MovedTowardByRate(uProgress, uProgress', TargetProgress(treeState))
            /\ (treeState = "FORMED" => uProgress' >= uProgress) ]_vars

\* the progress has come as near to 1 as the rounding lets it
C5_Witness == treeState = "FORMED" /\ PUnit - uProgress < 25

\* C6: a toggle of the scene state leaves the foliage progress and every
\* ornament's position and rotation as they are, and the frame after it moves
\* the progress 0.02 of the way toward the new target, lerps each ornament's
\* position by its own weight from where it was at the toggle toward the
\* newly selected pose, and adds the rotation increments of the new state to
\* the rotation it had.
C6_ToggleKeepsBlendState ==
    [][ /\ treeState' # treeState =>
              /\ uProgress' = uProgress
              /\ instanceMatrix' = instanceMatrix
        /\ frames' # frames =>
              /\ MovedTowardByRate(uProgress, uProgress', TargetProgress(treeState))
              /\ \A i \in Indices :
                    LET data == ornaments[i + 1]
                        m0 == instanceMatrix[i]
                        m1 == instanceMatrix'[i]
                        rs == data.rotationSpeed
                    IN  /\ LerpedByWeight(m0.pos, m1.pos,
                                          SelectedPose(data, treeState), data.speed)
                        /\ runLen = 0 =>
                              LerpedByWeight(runStart[i], m1.pos,
                                             SelectedPose(data, treeState), data.speed)
                        /\ m1.rot = IF treeState = "FORMED"
                                    THEN <<(m0.rot[1] + rs) % RotTurn,
                                           (m0.rot[2] + rs) % RotTurn, m0.rot[3]>>
                                    ELSE <<(m0.rot[1] + rs * 5) % RotTurn, m0.rot[2],
                                           (m0.rot[3] + rs * 5) % RotTurn>> ]_vars

\* the first frame after a toggle back to CHAOS in the middle of the forming:
\* every ornament was between its poses at the toggle and has moved back
\* toward the chaos pose, the foliage progress is in the middle, and the
\* rotation of the formed frames is still there
C6_Witness ==
    /\ treeState = "CHAOS"
    /\ runLen = 1
    /\ frames >= 4
    /\ uProgress > 0 /\ uProgress < PUnit
    /\ \A i \in Indices :
          /\ ornaments[i + 1].positionTarget < runStart[i]
          /\ runStart[i] < instanceMatrix[i].pos
          /\ instanceMatrix[i].pos < ornaments[i + 1].positionChaos
    /\ instanceMatrix[0].rot[2] > 0

\* C8 as the specification states it: after N frames of one scene state the
\* distance of an ornament to the selected pose is at most (1 - w)^N times
\* the distance before the first of them.
C8_GeometricBound ==
    \A i \in Indices :
        LET data == ornaments[i + 1]
            pose == SelectedPose(data, treeState)
        IN  runLen \in 1 .. MaxRun =>
              Pow(data.speed.den, runLen) * Abs(instanceMatrix[i].pos - pose)
                <= Pow(data.speed.den - data.speed.num, runLen)
                     * Abs(runStart[i] - pose)

\* C8, amended: the distance of an ornament to the selected pose never
\* increases from one frame to the next, and after N frames of one scene
\* state it is at most (1 - w)^N times the distance before the first of them
\* plus the rounding of the stored position, half a storage step a frame:
\* (1 - (1 - w)^N) / (2 w) steps.
C8_BoundUpToRounding ==
    /\ [](\A i \in Indices :
            LET data == ornaments[i + 1]
                pose == SelectedPose(data, treeState)
                n == data.speed.num
                d == data.speed.den
            IN  runLen \in 1 .. MaxRun =>
                  2 * n * Pow(d, runLen) * Abs(instanceMatrix[i].pos - pose)
                    <= 2 * n * Pow(d - n, runLen) * Abs(runStart[i] - pose)
                         + d * (Pow(d, runLen) - Pow(d - n, runLen)))
    /\ [][ frames' # frames =>
            \A i \in Indices :
                LET pose == SelectedPose(ornaments[i + 1], treeState)
                IN  Abs(instanceMatrix'[i].pos - pose)
                      <= Abs(instanceMatrix[i].pos - pose) ]_vars

\* MaxRun frames of FORMED have brought every ornament nearer to its target
C8_Witness ==
    /\ treeState = "FORMED"
    /\ runLen = MaxRun
    /\ \A i \in Indices :
          Abs(instanceMatrix[i].pos - ornaments[i + 1].positionTarget)
            < Abs(runStart[i] - ornaments[i + 1].positionTarget)

-----------------------------------------------------------------------------
(* Photo frames: claims *)

\* the amplitude of the float offset, Math.sin(...) * 0.2
FloatAmp == 20

\* the weights of the ornaments, Math.random() * 0.03 + 0.01, in 1/100
PhotoWeights == 1 .. 4

\* the callback of the frame with this id ran in the step
FrameRan(id) == lastDock'[id] # lastDock[id]

\* C7: each frame an undocked photo frame's tree-relative position is
\* lerp(previous position, selected pose, weight) with a per-instance weight
\* like the ornaments' (up to the float offset), so that after a toggle of the
\* scene state it moves from where it was toward the new pose and does not
\* jump to it.
C7_PhotoLerp ==
    [][ \A id \in PhotoIds(photos) :
          (/\ FrameRan(id)
           /\ lastDock[id].ran
           /\ zoomProgress[id] = 0
           /\ zoomProgress'[id] = 0)
          => \E w \in PhotoWeights :
                Abs(group'[id].position
                      - VecLerp(group[id].position, lastDock'[id].treePos, w, 100))
                  <= 2 * FloatAmp ]_vars

TreePose(h) ==
    [position |-> h.treePosFloated, quaternion |-> h.treeRot,
     scale |-> h.globalScale]

DockedPose(h) ==
    [position |-> h.screenPos, quaternion |-> h.screenRot,
     scale |-> h.screenScale]

\* C9 as the specification states it: a frame whose zoomProgress is exactly 0
\* has exactly the tree-relative pose (floated tree position, tree orientation,
\* globalScale), and one whose zoomProgress is exactly 1 has exactly the docked
\* pose (docked position, docked orientation, viewport-fit scale).
C9_EndpointsExact ==
    \A id \in PhotoIds(photos) :
        lastDock[id].ran =>
          /\ zoomProgress[id] = 0 => group[id] = TreePose(lastDock[id])
          /\ zoomProgress[id] = ZUnit => group[id] = DockedPose(lastDock[id])

\* C9, amended: the endpoints are exact, except that the scale of a frame at
\* zoomProgress 0 under the pointer is globalScale times 1.1.
C9_EndpointsExactButHover ==
    \A id \in PhotoIds(photos) :
        LET h == lastDock[id]
        IN  h.ran =>
              /\ zoomProgress[id] = 0 =>
                    group[id] = [TreePose(h) EXCEPT !.scale =
                                    IF h.hovered THEN RoundDiv(@ * 11, 10) ELSE @]
              /\ zoomProgress[id] = ZUnit => group[id] = DockedPose(h)

\* a frame has arrived at zoomProgress 1 under the pointer, in a narrow
\* canvas, where the width decides the viewport-fit scale
C9_Witness ==
    \E id \in PhotoIds(photos) :
        /\ lastDock[id].ran
        /\ zoomProgress[id] = ZUnit
        /\ lastDock[id].hovered
        /\ lastDock[id].screenScale < ScaleH
        /\ group[id].scale = lastDock[id].screenScale

\* C10: zoomProgress stays in [0, 1], and the value a frame blends with is
\* exactly the toggle target, 0 or 1, whenever it is less than 0.005 from it.
C10_ProgressSnapped ==
    \A id \in PhotoIds(photos) :
        LET h == lastDock[id]
        IN  /\ zoomProgress[id] \in 0 .. ZUnit
            /\ h.ran =>
                  /\ h.t = zoomProgress[id]
                  /\ Abs(h.t - h.targetProgress) < ZoomEps
                        => h.t = h.targetProgress /\ h.t \in {0, ZUnit}

\* the lerp of an undocking frame came nearer than 0.005 to 0 without
\* reaching it, and the frame blended with 0
C10_Witness ==
    \E id \in PhotoIds(photos) :
        /\ lastDock[id].ran
        /\ lastDock[id].targetProgress = 0
        /\ lastDock[id].lerped \in 1 .. (ZoomEps - 1)
        /\ lastDock[id].t = 0

\* C11: if the dock toggle of a photo frame stays as it is, its zoomProgress
\* reaches exactly the toggle target (1 if docked, 0 if not) after finitely
\* many frames and is exactly that value from then on.
C11_ReachesTarget ==
    \A id \in DockIds :
        /\ <>[](zoomedId = id) => <>[](zoomProgress[id] = ZUnit)
        /\ <>[](zoomedId # id) => <>[](zoomProgress[id] = 0)

\* a frame of a docked photo found zoomProgress at 1 and left it there
C11_Witness ==
    \E id \in PhotoIds(photos) :
        /\ zoomedId = id
        /\ lastDock[id].ran
        /\ lastDock[id].lerped = ZUnit
        /\ zoomProgress[id] = ZUnit

\* C12: a frame after a click during the dock animation moves zoomProgress from
\* its current value 0.1 of the way toward the new target and does not set it
\* to 0 or 1; and no other step (a re-layout by add, delete or sort, a toggle
\* of the scene state, a click) changes the zoomProgress of a photo that
\* stays in the collection.
C12_ReversesAndSurvives ==
    [][ \A id \in PhotoIds(photos) \cap PhotoIds(photos') :
          LET target == IF zoomedId = id THEN ZUnit ELSE 0
              moved == MathLerp(zoomProgress[id], target, 1, 10)
          IN  IF FrameRan(id)
              THEN /\ zoomProgress'[id] \in {moved, target}
                   /\ (lastDock[id].ran /\ lastDock[id].targetProgress # target)
                        => zoomProgress'[id] = moved /\ moved \notin {0, ZUnit}
              ELSE zoomProgress'[id] = zoomProgress[id] ]_vars

\* the second of two photos was sorted to the front, and its frame, clicked
\* again in the middle of docking, is on its way back from 0.1
C12_Witness ==
    \E id \in PhotoIds(photos) :
        /\ Len(photos) = 2
        /\ photos[1].id = id
        /\ photos[1].timestamp > photos[2].timestamp
        /\ lastDock[id].ran
        /\ lastDock[id].targetProgress = 0
        /\ zoomProgress[id] \in 1 .. (ZUnit \div 10 - 1)

-----------------------------------------------------------------------------
(* Generators: claims *)

\* C13: every layout generator returns exactly as many records as it is asked
\* for, and the empty sequence for none: the ornament data has ornamentCount
\* entries, the foliage has its count of particles, and recalculateLayout
\* returns one entry per photo it is given ([] for no photos).
C13_GeneratorsReturnCount ==
    /\ Len(ornaments) = ornamentCount
    /\ DOMAIN instanceMatrix = 0 .. (ornamentCount - 1)
    /\ DOMAIN particles = 0 .. (NumParticles - 1)
    /\ GenerateOrnaments(0, <<>>) = <<>>
    /\ RecalculateLayout(<<>>, <<>>) = <<>>
    /\ \A input \in {photos} \cup {Filter(photos, id) : id \in PhotoIds(photos)} :
          \A dirs \in [1 .. Len(input) -> ChaosDirs] :
             LET out == RecalculateLayout(input, dirs)
             IN  /\ Len(out) = Len(input)
                 /\ \A k \in 1 .. Len(input) : out[k].id = input[k].id

\* the ornament count was set to 0 with the full number of photos on the tree
C13_Witness ==
    /\ ornamentCount = 0
    /\ ornaments = <<>>
    /\ Len(photos) = MaxPhotos

\* the photos are as recalculateLayout leaves a collection
PhotoHeights ==
    LET n == Len(photos)
    IN  \A k \in 1 .. n :
           LET y == photos[k].positionTarget.y
           IN  /\ Abs(2 * n * (y - 100) - (2 * (k - 1) + 1) * 900) <= n
               /\ y >= 100 /\ y <= 1000
               /\ k < n =>
                     /\ y < photos[k + 1].positionTarget.y
                     /\ Abs(n * (photos[k + 1].positionTarget.y - y) - 900) <= n

\* C14: all generated target heights lie within their band: ornament heights
\* in [0.5, 0.5 + 0.9 * 11.5], foliage heights in [0, 12], and the heights of
\* N photos are 1 + ((i + 0.5) / N) * 9, strictly increasing in the index i,
\* equally spaced and within [1, 10].
C14_HeightsInBand ==
    /\ \A k \in 1 .. Len(ornaments) :
          ornaments[k].positionTarget.y >= 50 /\ ornaments[k].positionTarget.y <= 1085
    /\ \A i \in DOMAIN particles :
          particles[i].target.y >= 0 /\ particles[i].target.y <= 1200
    /\ PhotoHeights

\* two photos laid out, an ornament generated from the largest draw of the
\* height and a foliage particle from the largest draw of its height
C14_Witness ==
    /\ Len(photos) = 2
    /\ photos[1].positionTarget.y = 325
    /\ photos[2].positionTarget.y = 775
    /\ \E k \in 1 .. Len(ornaments) : ornaments[k].positionTarget.y > 1050
    /\ \E i \in DOMAIN particles : particles[i].target.y = 1199

\* the squared distance of a point from (0, lift, 0)
DistSqFrom(v, lift) == v.x * v.x + (v.y - lift) * (v.y - lift) + v.z * v.z

\* C15 as the specification states it: the distance of every generated chaos
\* position from the origin of the tree space exceeds the least chaos radius
\* of its class: 20 for ornaments, 15 for foliage, 18 for photo frames.
C15_ChaosBeyondRadius ==
    /\ \A k \in 1 .. Len(ornaments) :
          LengthSq(ornaments[k].positionChaos) > 2000 * 2000
    /\ \A i \in DOMAIN particles : LengthSq(particles[i].chaos) > 1500 * 1500
    /\ \A k \in 1 .. Len(photos) : LengthSq(photos[k].positionChaos) > 1800 * 1800

\* C15, amended: the distance of every generated chaos position from the
\* centre of its chaos sphere, (0, 5, 0) for ornaments and photo frames and
\* (0, 6, 0) for foliage, is at least the least chaos radius of its class.
C15_ChaosBeyondRadiusFromCentre ==
    /\ \A k \in 1 .. Len(ornaments) :
          DistSqFrom(ornaments[k].positionChaos, 500) >= 2000 * 2000
    /\ \A i \in DOMAIN particles :
          DistSqFrom(particles[i].chaos, 600) >= 1500 * 1500
    /\ \A k \in 1 .. Len(photos) :
          DistSqFrom(photos[k].positionChaos, 500) >= 1800 * 1800

\* an ornament, a foliage particle and a photo were all generated straight
\* below the centre of their sphere, nearer to the origin than the radius
C15_Witness ==
    /\ \E k \in 1 .. Len(ornaments) : ornaments[k].positionChaos.y = -1500
    /\ \E i \in DOMAIN particles : particles[i].chaos.y = -900
    /\ \E k \in 1 .. Len(photos) : photos[k].positionChaos.y = -1300

\* C16: no frame callback writes a stored chaos or target position: a frame
\* of the foliage, the ornaments or a photo frame leaves the ornament data,
\* the foliage particles and the photos as they are and changes only the
\* current poses (instance matrices, group transforms, the progress uniform)
\* and the colour buffer.
C16_FramesKeepPoses ==
    [][ frames' # frames =>
          /\ ornaments' = ornaments
          /\ particles' = particles
          /\ photos' = photos ]_vars

\* frames have moved the ornaments, the foliage progress and the photo frame
\* away from where they started, in the FORMED state
C16_Witness ==
    /\ treeState = "FORMED"
    /\ frames >= 2
    /\ uProgress > 0
    /\ \A i \in Indices : instanceMatrix[i].pos # ornaments[i + 1].positionChaos
    /\ \E id \in PhotoIds(photos) :
          lastDock[id].ran /\ group[id].position # PhotoOf(photos, id).positionChaos.y

\* ------------------------------------------------------------------
\* The photo collection: claims
\* ------------------------------------------------------------------

\* C17 as the specification states it: after every change of the photo
\* collection - add, delete, sort, share rewrite, shared-tree load - the photo
\* at index i of an N-photo collection has positionTarget = layout(i, N).
C17_LayoutRecomputed ==
    \A k \in 1 .. Len(photos) :
        photos[k].positionTarget = LayoutTarget(k - 1, Len(photos))

\* C18: a change of the collection by add, delete or sort gives every photo
\* that held the placeholder a chaos position on the radius-18 sphere lifted
\* by 5, so that no photo holds (0, 0, 0), and leaves the chaos position of
\* every photo that was already in the collection as it was.
C18_ChaosSeededOnce ==
    [][ photos' # photos =>
          \A k \in 1 .. Len(photos') :
             LET p == photos'[k]
             IN  /\ p.positionChaos # ZeroVec
                 /\ DistSqFrom(p.positionChaos, 500) = 1800 * 1800
                 /\ p.id \in PhotoIds(photos)
                      => p.positionChaos = PhotoOf(photos, p.id).positionChaos ]_vars

\* two photos with different chaos positions, the newer one sorted to the
\* front: adds and a sort have gone through recalculateLayout
C18_Witness ==
    /\ Len(photos) = 2
    /\ photos[1].timestamp > photos[2].timestamp
    /\ photos[1].positionChaos # photos[2].positionChaos
    /\ \A k \in 1 .. 2 : ~ IsPlaceholder(photos[k].positionChaos)

\* ------------------------------------------------------------------
\* The photo frame in unusual frames: claims
\* ------------------------------------------------------------------

\* C19 as the specification states it: in a frame in which the group has no
\* parent the docker skips its update: the frame's position, rotation and
\* scale stay as they were, or are the tree-relative pose of the frame, and
\* are not blended toward a substitute docked pose.
C19_SkipsWithoutParent ==
    [][ \A id \in PhotoIds(photos) :
          (FrameRan(id) /\ ~ lastDock'[id].parent)
          => \/ group'[id] = group[id]
             \/ group'[id] = TreePose(lastDock'[id])
             \/ group'[id] = [TreePose(lastDock'[id]) EXCEPT
                                !.scale = HoverScale(@)] ]_vars

\* C20 as the specification states it: whatever the canvas size, height 0 or
\* width and height 0 included, the scale of a photo frame is a finite number.
C20_ScaleFinite ==
    \A id \in PhotoIds(photos) : group[id].scale \notin {NaN, Infinity}

\* ------------------------------------------------------------------
\* The rotating group: claims
\* ------------------------------------------------------------------

\* C21 as the specification states it: while a photo frame is docked
\* (zoomedId is not null) every frame of the rotating group adds nothing to
\* its y rotation and moves its x tilt toward 0, that is to a value between
\* the old tilt and 0, in both scene states, and the orbit controls are
\* disabled.
C21_RotationSuppressed ==
    [][ zoomedId # NoId =>
          /\ rotation'.y = rotation.y
          /\ rotation.x >= 0 => (0 <= rotation'.x /\ rotation'.x <= rotation.x)
          /\ rotation.x <= 0 => (rotation.x <= rotation'.x /\ rotation'.x <= 0)
          /\ ~ OrbitEnabled ]_vars

\* ------------------------------------------------------------------
\* The twinkle scheduler: selection, cadence, dirty flag
\* ------------------------------------------------------------------

\* C22 as the specification states it: the selection loop ends after at most
\* 10 draws, and whenever the draw it ends on - the 1st to the 10th - is an
\* index with no active task and the colour buffer exists, a task for that
\* index is started in that frame.
C22_StartsOnAnyFreeDraw ==
    [][ (frames' # frames /\ lastFrame'.trigger.attempts > 0) =>
          /\ lastFrame'.trigger.attempts <= MaxAttempts
          /\ (/\ ~ Collides(twinkle.active, lastFrame'.trigger.newIndex)
              /\ DOMAIN instanceColor # {})
             => /\ lastFrame'.trigger.started
                /\ Collides(twinkle'.active, lastFrame'.trigger.newIndex) ]_vars

\* the cadence windows 0.05 + Math.random() * 0.15 of the model, in ticks
Windows == { d.window : d \in TimeDraws }

StartedAt(active, time) ==
    { k \in 1 .. Len(active) : active[k].startTime = time }

\* C23: a frame attempts a start only if fewer than 5 tasks are active and
\* the clock is past nextTwinkleTime; it starts at most one task; after an
\* attempt, started or skipped, nextTwinkleTime is the frame's time plus a
\* window in [0.05, 0.2]; a frame without attempt leaves nextTwinkleTime.
C23_Cadence ==
    [][ frames' # frames =>
          LET attempted == lastFrame'.trigger.attempts > 0
          IN  /\ attempted =>
                   /\ Len(twinkle.active) < maxActiveTwinkles
                   /\ clock' > twinkle.nextTwinkleTime
                   /\ (twinkle'.nextTwinkleTime - clock') \in Windows
              /\ ~ attempted => twinkle'.nextTwinkleTime = twinkle.nextTwinkleTime
              /\ Cardinality(StartedAt(twinkle'.active, clock')) <= 1
              /\ Len(twinkle'.active) <= Len(twinkle.active) + 1 ]_vars

\* an attempt was skipped beside an active task, and the window it set is
\* still running
C23_Witness ==
    /\ lastFrame.trigger.attempts > 0
    /\ ~ lastFrame.trigger.started
    /\ Len(twinkle.active) >= 1
    /\ twinkle.nextTwinkleTime > clock

\* C24 as the specification states it: the colour buffer is marked dirty on
\* exactly the frames in which the twinkle step writes an instance colour, a
\* flash colour or a restored original colour, and on no other frame.
C24_DirtyIffWritten ==
    [][ frames' # frames =>
          (colorDirty' <=>
             (Len(lastFrame'.completed) > 0 \/ Len(twinkle'.active) > 0)) ]_vars

\* ------------------------------------------------------------------
\* The foliage generator: claims
\* ------------------------------------------------------------------

\* C25 as the specification states it: the target pose of the particle i of
\* count is determined by i: its angle is i times the golden angle (2.4 rad)
\* and its height is the fraction i / count of the cone height (12).
C25_TargetsIndexDetermined ==
    \A i \in DOMAIN particles :
        /\ particles[i].target.theta = i * 240
        /\ particles[i].target.y = RoundDiv(i * 1200, NumParticles)

\* ------------------------------------------------------------------
\* The frame loop: claims
\* ------------------------------------------------------------------

IsPrefix(a, b) == Len(a) <= Len(b) /\ SubSeq(b, 1, Len(a)) = a

\* C26 as the specification states it: in every frame the parent group's
\* update runs first, then the ornaments' blend and twinkle update, then the
\* docking update of the photo frame.
C26_ParentFirst ==
    \E rest \in {<<>>, <<"Foliage">>} :
        IsPrefix(ran.log, rest \o <<"RotatingTreeGroup", "Ornaments.blend",
                                    "Ornaments.twinkle", "PhotoFrame">>)
        \/ IsPrefix(ran.log, <<"RotatingTreeGroup">> \o rest \o
                              <<"Ornaments.blend", "Ornaments.twinkle", "PhotoFrame">>)
        \/ IsPrefix(ran.log, <<"RotatingTreeGroup", "Ornaments.blend",
                               "Ornaments.twinkle">> \o rest \o <<"PhotoFrame">>)

\* C26: in every frame the ornaments' blend is followed by their twinkle
\* update, the parent group's update comes after both, and the docking update
\* of the photo frame comes last: it never runs before the parent group's
\* update of the same frame.
C26_DockingLast ==
    IsPrefix(ran.log, <<"Foliage", "Ornaments.blend", "Ornaments.twinkle",
                        "RotatingTreeGroup", "PhotoFrame">>)

\* a whole second frame has run, with the photo on its way to the dock
C26_Witness ==
    /\ frames = 2
    /\ ran.calls = Len(Subscribers)
    /\ ran.log[Len(ran.log)] = "PhotoFrame"
    /\ \E id \in PhotoIds(photos) : zoomProgress[id] > 0
    /\ rotation.y > 0

\* ------------------------------------------------------------------
\* The ornaments under changes of the configuration: claims
\* ------------------------------------------------------------------

\* C27 as the specification states it: whenever no twinkle task is active
\* the colour of every ornament in the buffer is its authored colour, after
\* any frames, twinkles, toggles, scale changes and count changes; and the
\* index of every active task is an index of the current ornaments.
C27_ColorsAreBase ==
    /\ Len(twinkle.active) = 0 =>
          \A i \in DOMAIN instanceColor : instanceColor[i] = ornaments[i + 1].color
    /\ \A k \in 1 .. Len(twinkle.active) :
          twinkle.active[k].index \in DOMAIN instanceColor

\* C28 as the specification states it: a change of the ornament scale
\* multiplier changes the scale of the instances only: the position and the
\* rotation of every ornament are the same after the change as before.
C28_ScaleChangeKeepsPose ==
    [][ globalScale' # globalScale =>
          \A i \in DOMAIN instanceMatrix :
             /\ instanceMatrix'[i].pos = instanceMatrix[i].pos
             /\ instanceMatrix'[i].rot = instanceMatrix[i].rot ]_vars

\* ------------------------------------------------------------------
\* The docked photo and the collection: claims
\* ------------------------------------------------------------------

\* C29 as the specification states it: whenever zoomedId is not null it is
\* the id of a photo of the collection, after any frame clicks, adds, deletes
\* and sorts; deleting the docked photo leaves no photo docked.
C29_ZoomedIdInCollection ==
    zoomedId # NoId => zoomedId \in PhotoIds(photos)

\* C30 as the specification states it: an add or a delete made while
\* handleShare is waiting is still in the collection after handleShare has
\* gone on: no step of handleShare adds a photo to the collection or removes
\* one from it, and the step that ends it leaves the collection as it is.
C30_ShareKeepsEdits ==
    [][ sharing' # sharing =>
          /\ PhotoIds(photos') = PhotoIds(photos)
          /\ ~ sharing'.running => photos' = photos ]_vars

====
